---------------------------- MODULE Spec2Model ----------------------------
(* Model of drive/list.go: Drive.List, listAllFiles (paginated fetch with  *)
(* a bounded-count early stop), PrintFileList and PrintTabbedFileList.     *)
EXTENDS Integers, Sequences, FiniteSets, TLC

VARIABLES
    args,       \* ListFilesArgs handed to Drive.List
    pages,      \* the remote source: the pages it serves, in order
    pc,         \* position of the single thread of control
    pageSize,   \* listAllFiles: pageSize
    files,      \* listAllFiles: files (later List: files)
    pageIdx,    \* number of pages fetched so far by Pages
    requests,   \* history: one entry per page request sent to the service
    pagesErr,   \* value returned by Pages(...)
    retFiles,   \* listAllFiles: returned slice
    retErr,     \* listAllFiles: returned error
    err,        \* List: returned error
    resolved,   \* number of pathfinder.absPath calls made
    pathFail,   \* index of the record whose absPath call failed (0: none)
    renderer,   \* which renderer List invoked ("none" before)
    out,        \* rows written to the caller's own writer
    stdout      \* rows written to os.Stdout

vars == <<args, pages, pc, pageSize, files, pageIdx, requests, pagesErr,
          retFiles, retErr, err, resolved, pathFail, renderer, out, stdout>>

-----------------------------------------------------------------------------
(* Bounds *)
MaxPages   == 3      \* pages the source serves
MaxPageLen == 2      \* records on one page
MaxSmallN  == 3      \* small values of MaxFiles
MaxNameWidth == 3    \* name width: keeps bare names whole, cuts resolved paths

(* Program constants *)
MaxPageSize == 1000

\* error values are message sequences; nil is the empty one
Nil == <<>>
ControlledStop == <<"Controlled stop">>
TransportErrs == {<<"googleapi: 403">>, <<"googleapi: 500">>}
PathErr == <<"absPath failed">>
DirectoryMimeType == "application/vnd.google-apps.folder"

MaxFilesValues == (0..MaxSmallN) \cup {MaxPageSize - 1, MaxPageSize + 1}
NameWidths == {MaxNameWidth}

Min(a, b) == IF a < b THEN a ELSE b

-----------------------------------------------------------------------------
(* The remote source *)

\* the i-th record of the source (drive.File)
FileOf(i) ==
    [Id |-> i,
     Name |-> <<i, i, i>>,
     MimeType |-> IF i % 3 = 0 THEN DirectoryMimeType
                  ELSE IF i % 3 = 1 THEN "application/octet-stream"
                  ELSE "application/vnd.google-apps.document",
     Md5Checksum |-> IF i % 3 = 1 THEN <<"md5", i>> ELSE <<>>,
     Size |-> IF i % 3 = 1 THEN 1024 * i ELSE 0,
     CreatedTime |-> <<"rfc3339", i>>,
     HeadRevisionId |-> <<"rev", i>>]

RECURSIVE SumTo(_, _)
SumTo(lens, k) == IF k = 0 THEN 0 ELSE SumTo(lens, k - 1) + lens[k]

\* the pages of a source whose k-th page holds lens[k] consecutive records
PagesOf(lens) ==
    [k \in 1..Len(lens) |->
        [j \in 1..lens[k] |-> FileOf(SumTo(lens, k - 1) + j)]]

RECURSIVE Flatten(_)
Flatten(ps) == IF ps = <<>> THEN <<>> ELSE Head(ps) \o Flatten(Tail(ps))

AllRecords == Flatten(pages)
Total == Len(AllRecords)

-----------------------------------------------------------------------------
(* listAllFiles *)

\* variant: the requested maximum is used as the page size without the cap
PageSizeForUncapped(maxFiles) ==
    IF maxFiles > 0 THEN maxFiles ELSE MaxPageSize

PageSizeFor(maxFiles) ==
    IF maxFiles > 0 /\ maxFiles < MaxPageSize THEN maxFiles ELSE MaxPageSize

\* variant: the stop test is strict
StopNowStrict(maxFiles, fs) == maxFiles > 0 /\ Len(fs) > maxFiles

\* variant: the stop test does not ask whether a maximum was specified
StopNowUnguarded(maxFiles, fs) == Len(fs) >= maxFiles

\* the callback's stop test, after appending the page
StopNow(maxFiles, fs) == maxFiles > 0 /\ Len(fs) >= maxFiles

\* variant: the accumulated records are returned without truncation
ListAllFilesResultNoTruncate(maxFiles, fs, e) ==
    IF e # Nil /\ e # ControlledStop
    THEN [files |-> <<>>, err |-> e]
    ELSE [files |-> fs, err |-> Nil]

\* variant: the sentinel is not told apart from a genuine failure
ListAllFilesResultSentinelLeaks(maxFiles, fs, e) ==
    IF e # Nil
    THEN [files |-> <<>>, err |-> e]
    ELSE IF maxFiles > 0
         THEN [files |-> SubSeq(fs, 1, Min(Len(fs), maxFiles)), err |-> Nil]
         ELSE [files |-> fs, err |-> Nil]

\* variant: a genuine failure is swallowed and the partial records returned
ListAllFilesResultPartial(maxFiles, fs, e) ==
    IF maxFiles > 0
    THEN [files |-> SubSeq(fs, 1, Min(Len(fs), maxFiles)), err |-> Nil]
    ELSE [files |-> fs, err |-> Nil]

\* the result pair of listAllFiles once Pages has returned e
ListAllFilesResult(maxFiles, fs, e) ==
    IF e # Nil /\ e # ControlledStop
    THEN [files |-> <<>>, err |-> e]
    ELSE IF maxFiles > 0
         THEN [files |-> SubSeq(fs, 1, Min(Len(fs), maxFiles)), err |-> Nil]
         ELSE [files |-> fs, err |-> Nil]

\* the io.Writer values a caller may pass as ListFilesArgs.Out
Writers == {"os.Stdout", "buffer"}

ArgsSet ==
    [Out : Writers, MaxFiles : MaxFilesValues, NameWidth : NameWidths, SkipHeader : BOOLEAN,
     SizeInBytes : BOOLEAN, AbsPath : BOOLEAN, UseCsv : BOOLEAN,
     UseExtended : BOOLEAN]

PageLens ==
    UNION {[1..n -> 0..MaxPageLen] : n \in 1..MaxPages}

Init ==
    /\ args \in ArgsSet
    /\ \E lens \in PageLens :
          /\ \A k \in 1..Len(lens) : lens[k] <= PageSizeFor(args.MaxFiles)
          /\ pages = PagesOf(lens)
    /\ pc = "start"
    /\ pageSize = 0
    /\ files = <<>>
    /\ pageIdx = 0
    /\ requests = <<>>
    /\ pagesErr = Nil
    /\ retFiles = <<>>
    /\ retErr = Nil
    /\ err = Nil
    /\ resolved = 0
    /\ pathFail = 0
    /\ renderer = "none"
    /\ out = <<>>
    /\ stdout = <<>>

\* List calls listAllFiles, which derives the page size
ListAllFilesStart ==
    /\ pc = "start"
    /\ pageSize' = PageSizeFor(args.MaxFiles)
    /\ pc' = "paging"
    /\ UNCHANGED <<args, pages, files, pageIdx, requests, pagesErr, retFiles,
                   retErr, err, resolved, pathFail, renderer, out, stdout>>

Request(result) == [pageSize |-> pageSize, before |-> Len(files), result |-> result]

\* one iteration of Pages: Do() succeeds and the callback runs
FetchPage ==
    /\ pc = "paging"
    /\ pageIdx < Len(pages)
    /\ LET fl == pages[pageIdx + 1]
           fs == files \o fl
       IN /\ files' = fs
          /\ pageIdx' = pageIdx + 1
          /\ requests' = Append(requests, Request(Nil))
          /\ IF StopNow(args.MaxFiles, fs)
             THEN pagesErr' = ControlledStop /\ pc' = "paged"
             ELSE IF pageIdx + 1 = Len(pages)      \* NextPageToken == ""
                  THEN pagesErr' = Nil /\ pc' = "paged"
                  ELSE pagesErr' = pagesErr /\ pc' = "paging"
    /\ UNCHANGED <<args, pages, pageSize, retFiles, retErr, err, resolved,
                   pathFail, renderer, out, stdout>>

\* one iteration of Pages: Do() fails
FetchFail ==
    /\ pc = "paging"
    /\ pageIdx < Len(pages)
    /\ \E e \in TransportErrs :
          /\ requests' = Append(requests, Request(e))
          /\ pagesErr' = e
    /\ pc' = "paged"
    /\ UNCHANGED <<args, pages, pageSize, files, pageIdx, retFiles, retErr,
                   err, resolved, pathFail, renderer, out, stdout>>

ListAllFilesReturn ==
    /\ pc = "paged"
    /\ LET r == ListAllFilesResult(args.MaxFiles, files, pagesErr)
       IN retFiles' = r.files /\ retErr' = r.err
    /\ pc' = "returned"
    /\ UNCHANGED <<args, pages, pageSize, files, pageIdx, requests, pagesErr,
                   err, resolved, pathFail, renderer, out, stdout>>

-----------------------------------------------------------------------------
(* Formatting helpers *)

isDir(f) == f.MimeType = DirectoryMimeType

isBinary(f) == f.Md5Checksum # <<>>

filetype(f) == IF isDir(f) THEN "dir" ELSE IF isBinary(f) THEN "bin" ELSE "doc"

truncateString(str, maxRunes) ==
    IF Len(str) > maxRunes THEN SubSeq(str, 1, maxRunes) ELSE str

formatSize(bytes, forceBytes) ==
    IF forceBytes THEN <<bytes, "B">>
    ELSE IF bytes >= 1024 THEN <<bytes \div 1024, "KB">> ELSE <<bytes, "B">>

formatDatetime(iso) == <<"local", iso[2]>>

\* pathfinder.absPath on success: the name prefixed by its ancestry
absPath(f) == <<0>> \o f.Name

\* a cell of a record row carries the column it was produced for
Cell(col, val) == <<col, val>>

BaseHeaders == <<"Id", "Name", "Type", "Size", "Created">>
ExtendedHeaders == <<"Checksum", "HeadRevisionId">>

BaseRecord(f, a) ==
    << Cell("Id", f.Id),
       Cell("Name", truncateString(f.Name, a.NameWidth)),
       Cell("Type", filetype(f)),
       Cell("Size", formatSize(f.Size, a.SizeInBytes)),
       Cell("Created", formatDatetime(f.CreatedTime)) >>

ExtendedRecord(f) ==
    << Cell("Checksum", f.Md5Checksum),
       Cell("HeadRevisionId", f.HeadRevisionId) >>

HeaderRow(cols) == [kind |-> "header", cells |-> cols]
RecordRow(cells) == [kind |-> "record", cells |-> cells]

\* variant: the extended columns are added to the header only
PrintFileListRowsHeaderOnly(a, fs) ==
    (IF a.SkipHeader THEN <<>>
     ELSE << HeaderRow(BaseHeaders \o
                       (IF a.UseExtended THEN ExtendedHeaders ELSE <<>>)) >>)
    \o [k \in 1..Len(fs) |-> RecordRow(BaseRecord(fs[k], a))]

\* the rows PrintFileList writes, in order
PrintFileListRows(a, fs) ==
    (IF a.SkipHeader THEN <<>>
     ELSE << HeaderRow(BaseHeaders \o
                       (IF a.UseExtended THEN ExtendedHeaders ELSE <<>>)) >>)
    \o [k \in 1..Len(fs) |->
           RecordRow(BaseRecord(fs[k], a) \o
                     (IF a.UseExtended THEN ExtendedRecord(fs[k]) ELSE <<>>))]

\* variant: the header is written whether or not it is to be skipped
PrintTabbedFileListRowsAlwaysHeader(a, fs) ==
    << HeaderRow(BaseHeaders) >>
    \o [k \in 1..Len(fs) |-> RecordRow(BaseRecord(fs[k], a))]

\* the rows PrintTabbedFileList writes, in order
PrintTabbedFileListRows(a, fs) ==
    (IF a.SkipHeader THEN <<>> ELSE << HeaderRow(BaseHeaders) >>)
    \o [k \in 1..Len(fs) |-> RecordRow(BaseRecord(fs[k], a))]

\* the writer PrintFileList's csv.Writer is built on
CsvSink(a) == "os.Stdout"

\* the writer PrintTabbedFileList's tabwriter is initialised with
TabbedSink(a) == a.Out

-----------------------------------------------------------------------------
(* Drive.List after listAllFiles has returned *)

WrapListErr(e) == <<"Failed to list files: ">> \o e

ListCheckErr ==
    /\ pc = "returned"
    /\ IF retErr # Nil
       THEN err' = WrapListErr(retErr) /\ pc' = "done"
       ELSE err' = err /\ pc' = IF args.AbsPath THEN "resolve" ELSE "render"
    /\ UNCHANGED <<args, pages, pageSize, files, pageIdx, requests, pagesErr,
                   retFiles, retErr, resolved, pathFail, renderer, out, stdout>>

\* one iteration of the absolute-path loop whose absPath call succeeds
ResolveOk ==
    /\ pc = "resolve"
    /\ resolved < Len(retFiles)
    /\ LET i == resolved + 1
       IN retFiles' = [retFiles EXCEPT ![i].Name = absPath(retFiles[i])]
    /\ resolved' = resolved + 1
    /\ UNCHANGED <<args, pages, pc, pageSize, files, pageIdx, requests,
                   pagesErr, retErr, err, pathFail, renderer, out, stdout>>

\* variant: the loop records the failure and goes on to the next record
ResolveFailContinue ==
    /\ pc = "resolve"
    /\ resolved < Len(retFiles)
    /\ LET i == resolved + 1
       IN /\ retFiles' = [retFiles EXCEPT ![i].Name = <<>>]
          /\ pathFail' = i
    /\ resolved' = resolved + 1
    /\ err' = PathErr
    /\ pc' = "resolve"
    /\ UNCHANGED <<args, pages, pageSize, files, pageIdx, requests, pagesErr,
                   retErr, renderer, out, stdout>>

\* one iteration of the absolute-path loop whose absPath call fails
ResolveFail ==
    /\ pc = "resolve"
    /\ resolved < Len(retFiles)
    /\ LET i == resolved + 1
       IN /\ retFiles' = [retFiles EXCEPT ![i].Name = <<>>]
          /\ pathFail' = i
    /\ resolved' = resolved + 1
    /\ err' = PathErr
    /\ pc' = "done"
    /\ UNCHANGED <<args, pages, pageSize, files, pageIdx, requests, pagesErr,
                   retErr, renderer, out, stdout>>

\* the range loop is over
ResolveDone ==
    /\ pc = "resolve"
    /\ resolved = Len(retFiles)
    /\ pc' = "render"
    /\ UNCHANGED <<args, pages, pageSize, files, pageIdx, requests, pagesErr,
                   retFiles, retErr, err, resolved, pathFail, renderer, out,
                   stdout>>

WriteTo(sink, rows) ==
    /\ out' = IF sink = "buffer" THEN out \o rows ELSE out
    /\ stdout' = IF sink = "os.Stdout" THEN stdout \o rows ELSE stdout

PrintFileList ==
    /\ pc = "render"
    /\ args.UseCsv
    /\ renderer' = "PrintFileList"
    /\ WriteTo(CsvSink(args), PrintFileListRows(args, retFiles))
    /\ pc' = "done"
    /\ UNCHANGED <<args, pages, pageSize, files, pageIdx, requests, pagesErr,
                   retFiles, retErr, err, resolved, pathFail>>

PrintTabbedFileList ==
    /\ pc = "render"
    /\ ~args.UseCsv
    /\ renderer' = "PrintTabbedFileList"
    /\ WriteTo(TabbedSink(args), PrintTabbedFileListRows(args, retFiles))
    /\ pc' = "done"
    /\ UNCHANGED <<args, pages, pageSize, files, pageIdx, requests, pagesErr,
                   retFiles, retErr, err, resolved, pathFail>>

Next ==
    \/ ListAllFilesStart
    \/ FetchPage
    \/ FetchFail
    \/ ListAllFilesReturn
    \/ ListCheckErr
    \/ ResolveOk
    \/ ResolveFail
    \/ ResolveDone
    \/ PrintFileList
    \/ PrintTabbedFileList

Spec == Init /\ [][Next]_vars

TypeOK ==
    /\ pc \in {"start", "paging", "paged", "returned", "resolve", "render", "done"}
    /\ pageIdx \in 0..Len(pages)
    /\ resolved \in 0..Len(retFiles)
    /\ renderer \in {"none", "PrintFileList", "PrintTabbedFileList"}

-----------------------------------------------------------------------------
(* Properties *)

N == args.MaxFiles
Listed == pc \in {"returned", "resolve", "render", "done"}
PagingOver == pc \notin {"start", "paging"}
FetchFailed == pagesErr \in TransportErrs
Rendered == out \o stdout
Ids(fs) == [k \in 1..Len(fs) |-> fs[k].Id]

\* C1: with a maximum N > 0 and every page fetch succeeding, listAllFiles
\* returns exactly the first min(N, total available) records of the source,
\* in source order, with a nil error.
C1_BoundedListing ==
    (pc = "returned" /\ N > 0 /\ ~FetchFailed) =>
        /\ retErr = Nil
        /\ Len(retFiles) = Min(N, Total)
        /\ retFiles = SubSeq(AllRecords, 1, Min(N, Total))

\* a page overshot the maximum and the tail was dropped
C1_Witness ==
    /\ pc = "returned" /\ N > 0 /\ ~FetchFailed
    /\ pageIdx >= 2
    /\ Len(files) > N
    /\ Len(retFiles) = N

\* C2: with N = 0 and every page fetch succeeding, every page of the source
\* is fetched and all records are returned, in source order, untruncated.
C2_UnboundedListing ==
    (pc = "returned" /\ N = 0 /\ ~FetchFailed) =>
        /\ retErr = Nil
        /\ pageIdx = Len(pages)
        /\ retFiles = AllRecords

C2_Witness ==
    /\ pc = "returned" /\ N = 0 /\ ~FetchFailed
    /\ pageIdx = MaxPages
    /\ Len(retFiles) >= 4

\* C3: every page request carries a page size of at most 1000, and of at
\* most N when N > 0: min(N, 1000) for N > 0 and 1000 for N = 0.
C3_PageSize ==
    \A k \in 1..Len(requests) :
        /\ requests[k].pageSize <= 1000
        /\ N > 0 => requests[k].pageSize <= N
        /\ requests[k].pageSize = IF N > 0 THEN Min(N, 1000) ELSE 1000

\* a request was sent for a maximum above the cap
C3_Witness ==
    /\ N > 1000
    /\ Len(requests) >= 1
    /\ requests[1].pageSize = 1000

\* C4: with N > 0 no page is requested once the accumulated count has
\* reached N, pagination ends with the controlled stop exactly when the
\* count has reached N, and while the count is below N the fetch goes on
\* until the source is exhausted.
C4_StopAtMaximum ==
    N > 0 =>
        /\ \A k \in 1..Len(requests) : requests[k].before < N
        /\ pc = "paging" => Len(files) < N
        /\ (PagingOver /\ ~FetchFailed) =>
              /\ (pagesErr = ControlledStop) <=> (Len(files) >= N)
              /\ Len(files) < N => pageIdx = Len(pages)

\* pagination stopped at the second page with a page of the source unread
C4_Witness ==
    /\ N > 0
    /\ pc = "paged"
    /\ pagesErr = ControlledStop
    /\ pageIdx = 2
    /\ Len(pages) = 3

\* C5: the controlled-stop sentinel is never returned by listAllFiles nor by
\* List; when pagination ended by it, listAllFiles returns the records with
\* a nil error and List fails only if path resolution failed.
C5_SentinelHidden ==
    /\ retErr # ControlledStop
    /\ err # ControlledStop
    /\ err # WrapListErr(ControlledStop)
    /\ (pagesErr = ControlledStop /\ Listed) =>
          /\ retErr = Nil
          /\ Ids(retFiles) = Ids(SubSeq(files, 1, N))
          /\ pc # "resolve" => (err = Nil \/ (err = PathErr /\ pathFail > 0))
          /\ (pc = "done" /\ pathFail = 0) => (err = Nil /\ renderer # "none")

C5_Witness ==
    /\ pagesErr = ControlledStop
    /\ pc = "done"
    /\ err = Nil
    /\ retErr = Nil
    /\ Len(retFiles) >= 2
    /\ renderer # "none"

\* C6: a failed page fetch, on whichever page, is returned by listAllFiles
\* as it is with no records, and List then returns an error without
\* resolving a path or invoking a renderer, so nothing is written.
C6_FetchFailurePropagates ==
    \A k \in 1..Len(requests) :
        requests[k].result # Nil =>
            /\ k = Len(requests)
            /\ PagingOver
            /\ pagesErr = requests[k].result
            /\ Listed => (retErr = requests[k].result /\ retFiles = <<>>)
            /\ pc \notin {"paged", "returned"} =>
                  /\ pc = "done"
                  /\ err = WrapListErr(requests[k].result)
                  /\ err # Nil
                  /\ resolved = 0
                  /\ renderer = "none"
                  /\ out = <<>> /\ stdout = <<>>

\* the third fetch failed after two pages of records had been accumulated
C6_Witness ==
    /\ pc = "done"
    /\ Len(requests) = 3
    /\ requests[3].result \in TransportErrs
    /\ Len(files) >= 2
    /\ retFiles = <<>>
    /\ err = WrapListErr(requests[3].result)

\* C7: in absolute-path mode a failed resolution ends List at once with that
\* error, no later record is resolved and nothing is written; a renderer is
\* invoked only after every record has been resolved successfully.
C7_ResolveBeforeRender ==
    args.AbsPath =>
        /\ pathFail > 0 =>
              /\ pc = "done"
              /\ err = PathErr
              /\ resolved = pathFail
              /\ renderer = "none"
              /\ out = <<>> /\ stdout = <<>>
        /\ (renderer # "none" \/ out # <<>> \/ stdout # <<>> \/ pc = "render") =>
              /\ pathFail = 0
              /\ resolved = Len(retFiles)
              /\ \A k \in 1..Len(retFiles) :
                    retFiles[k].Name = absPath(FileOf(retFiles[k].Id))

\* resolution failed on a middle record
C7_Witness ==
    /\ args.AbsPath
    /\ pathFail = 2
    /\ Len(retFiles) >= 3
    /\ pc = "done"
    /\ err = PathErr

\* C8: the rendered table is written to the writer the caller provided and
\* to no other destination, in both rendering modes.
C8_OnlyCallersWriter ==
    renderer # "none" =>
        /\ args.Out = "buffer" => (stdout = <<>> /\ Len(out) >= Len(retFiles))
        /\ args.Out = "os.Stdout" => out = <<>>

AllColumns ==
    <<"Id", "Name", "Type", "Size", "Created", "Checksum", "HeadRevisionId">>

ColumnsOf(row) ==
    IF row.kind = "header" THEN row.cells
    ELSE [j \in 1..Len(row.cells) |-> row.cells[j][1]]

\* C9: every row of the delimited rendering with extended mode on has the 7
\* columns Id, Name, Type, Size, Created, Checksum, HeadRevisionId; every
\* row of the delimited rendering with extended mode off and of the tabbed
\* rendering has the 5 columns Id, Name, Type, Size, Created.
C9_ColumnCount ==
    \A k \in 1..Len(Rendered) :
        LET n == IF renderer = "PrintFileList" /\ args.UseExtended THEN 7 ELSE 5
        IN /\ Len(Rendered[k].cells) = n
           /\ ColumnsOf(Rendered[k]) = SubSeq(AllColumns, 1, n)

C9_Witness ==
    /\ renderer = "PrintFileList"
    /\ args.UseExtended
    /\ Len(Rendered) >= 3
    /\ Rendered[1].kind = "header"
    /\ Len(Rendered[2].cells) = 7

\* C10: both renderers write one header row unless skip-header is set, and
\* none when it is, before any record row, then one row per record in the
\* order of the records.
C10_RowPerRecord ==
    renderer # "none" =>
        LET h == IF args.SkipHeader THEN 0 ELSE 1
        IN /\ Len(Rendered) = h + Len(retFiles)
           /\ \A k \in 1..Len(Rendered) :
                 (Rendered[k].kind = "header") <=> (k <= h)
           /\ \A k \in 1..Len(retFiles) :
                 /\ Rendered[h + k].kind = "record"
                 /\ Rendered[h + k].cells[1] = Cell("Id", retFiles[k].Id)
                 /\ retFiles[k].Id = k

\* three pages were listed up to the maximum and rendered under a header
C10_Witness ==
    /\ renderer = "PrintTabbedFileList"
    /\ ~args.SkipHeader
    /\ pageIdx = 3
    /\ N = Total
    /\ Len(retFiles) = N
    /\ Len(Rendered) = N + 1
=============================================================================
